---- MODULE Spec2Model ----
(***************************************************************************)
(* ListenBrainz submission plugin (modules/misc/listenbrainz.c).           *)
(*                                                                         *)
(* Threads of control:                                                     *)
(*   - the player thread, which runs the player callbacks                  *)
(*     PlayerStateChanged and OnCurrentMediaChanged (serialised by the     *)
(*     player), and through them ReadMetaData and Enqueue;                 *)
(*   - the timer source, which runs OnTimerUpdate (a single store);        *)
(*   - the worker thread Run;                                              *)
(*   - the thread that calls Close.                                        *)
(* The mutex p_sys->lock is the variable lock (its owner); blocking on it  *)
(* is an action guarded by lock = "free".  The condition variable          *)
(* p_sys->wait has the worker as its only waiter: a signal moves a waiting *)
(* worker to the matching woken position and is lost otherwise.            *)
(***************************************************************************)
EXTENDS Integers, Sequences, FiniteSets, TLC

\* ------------------------------------------------------------------ bounds

\* Number of times the environment lets ReadMetaData populate a listen.
MaxListens == 2
\* Last instant of the model clock, and how far one clock step advances it.
MaxTime == 70
TickStep == 30

\* --------------------------------------------------------- program constants

VLC_PLAYER_STATE_STOPPED == 0
VLC_PLAYER_STATE_PLAYING == 2
VLC_PLAYER_STATE_STOPPING == 4
\* Enqueue: a song listened for less than this many seconds is not submitted.
MinListenSec == 30
\* Run: seconds of the timed wait after a failed submission.
BackoffSec == 60
\* vlc_cond_timedwait: 0 when woken, ETIMEDOUT when the deadline passed.
ETIMEDOUT == 110
VLC_SUCCESS == 0
VLC_EGENERIC == -1

NULL == "(null)"

EMPTY_STR(s) == s = NULL \/ s = ""

\* ------------------------------------------------------------ environment

\* An input item, as the metadata accessors input_item_Get* see it.
Item(aa, a, t, al, id, num, dur) ==
    [album_artist |-> aa, artist |-> a, title |-> t, album |-> al,
     track_id |-> id, track_num |-> num, duration |-> dur]

Items == { Item(NULL, "X", "Y", "L", "M", "1", 200),
           Item("Z", "X", "Y", "", NULL, NULL, 0),
           Item(NULL, "", "Y", "L", NULL, NULL, 200),
           Item("Z", "X", NULL, NULL, NULL, NULL, 200) }

\* Playback positions the timer reports, in seconds.
PlayedVals == {MinListenSec - 1, MinListenSec}

PlayerStates == VLC_PLAYER_STATE_STOPPED .. VLC_PLAYER_STATE_STOPPING

\* What SendRequest can meet on the network.
NetOutcomes == {"connect_failed", "write_failed", "no_response",
                "status_200", "status_401", "status_other"}

\* ------------------------------------------------------------------- state

VARIABLES
    queue,          \* p_sys->queue
    p_current_song, \* p_sys->p_current_song
    b_meta_read,    \* p_sys->b_meta_read
    time_played,    \* p_sys->time_played
    live,           \* p_sys->live
    lock,           \* owner of p_sys->lock: "free", "player", "worker", "close"
    now,            \* the clock (time() and vlc_tick_now(), in seconds)
    n_listens,      \* number of listens populated so far
    ppc,            \* position of the player thread
    p_item,         \* item of the ReadMetaData call in progress
    p_omc,          \* arguments of the OnCurrentMediaChanged call in progress
    wpc,            \* position of the worker thread in Run
    b_wait,         \* Run's local b_wait
    deadline,       \* Run's local deadline
    tw_ret,         \* Run's local ret of the timed wait
    payload,        \* Run's local payload, NULL once PrepareRequest freed it
    batch,          \* the queue contents of the attempt that is under way or
                    \* that failed last (history)
    ret,            \* Run's local ret of SendRequest: NULL (no value) until
                    \* the first SendRequest returns, Ptr(value) afterwards
    waited,         \* the worker did a timed wait since its last attempt
    cpc,            \* position of the thread in Close
    listening       \* the player and timer listeners are registered

vars == <<queue, p_current_song, b_meta_read, time_played, live, lock, now,
          n_listens, ppc, p_item, p_omc, wpc, b_wait, deadline, tw_ret,
          payload, batch, ret, waited, cpc, listening>>

playerVars == <<p_current_song, b_meta_read, time_played, n_listens, ppc,
                p_item, p_omc>>
workerVars == <<wpc, b_wait, deadline, tw_ret, payload, batch, ret, waited>>
closeVars == <<cpc, listening>>

\* ----------------------------------------------------------------- listens

\* listen_t; id is the number of the population that filled the record
\* (history, 0 in an empty record).
EmptySong == [psz_artist |-> NULL, psz_title |-> NULL, psz_album |-> NULL,
              psz_track_number |-> NULL,
              psz_musicbrainz_recording_id |-> NULL,
              i_length |-> 0, date |-> 0, id |-> 0]

DeleteSong(p_song) == EmptySong

DeleteSongQueue(q) == << >>

\* A pointer that may be NULL is a sequence: << >> for NULL, <<x>> for x.
NullPtr == << >>
Ptr(x) == <<x>>
Deref(p) == p[1]

Range(s) == { s[i] : i \in DOMAIN s }

IsPrefix(s, t) == Len(s) <= Len(t) /\ \A i \in DOMAIN s : s[i] = t[i]

\* vlc_uri_encode and vlc_uri_decode: the encoded form of a text is another
\* value, and decoding gives back the text that was encoded.
vlc_uri_encode(psz_data) == [encoded |-> psz_data]

vlc_uri_decode(psz_enc) == psz_enc.encoded

\* RETRIEVE_METADATA(a, b): the new value of a, given the item's value.
RETRIEVE_METADATA(a, psz_data) ==
    IF psz_data # NULL /\ psz_data # "" THEN vlc_uri_decode(vlc_uri_encode(psz_data)) ELSE a

\* Mutant of ReadMetaDataBody: the error label does not delete the song.
ReadMetaDataBody_KeepsRejected(song, item, t, id) ==
    LET s0 == [song EXCEPT !.date = t, !.id = id]
        s1 == [s0 EXCEPT !.psz_artist =
                   RETRIEVE_METADATA(s0.psz_artist, item.album_artist)]
        s2 == IF s1.psz_artist = NULL
              THEN [s1 EXCEPT !.psz_artist =
                        RETRIEVE_METADATA(s1.psz_artist, item.artist)]
              ELSE s1
        s3 == [s2 EXCEPT !.psz_title =
                   RETRIEVE_METADATA(s2.psz_title, item.title)]
        s4 == [s3 EXCEPT
                 !.psz_album = RETRIEVE_METADATA(s3.psz_album, item.album),
                 !.psz_musicbrainz_recording_id =
                     RETRIEVE_METADATA(s3.psz_musicbrainz_recording_id,
                                       item.track_id),
                 !.psz_track_number =
                     RETRIEVE_METADATA(s3.psz_track_number, item.track_num),
                 !.i_length = item.duration]
    IN  IF s2.psz_artist = NULL
        THEN [song |-> s2, registered |-> FALSE]
        ELSE IF s3.psz_title = NULL
        THEN [song |-> s3, registered |-> FALSE]
        ELSE [song |-> s4, registered |-> TRUE]

\* ReadMetaData between lock and unlock: the new current song, and whether
\* the end of the function was reached (the condition variable signalled).
ReadMetaDataBody(song, item, t, id) ==
    LET s0 == [song EXCEPT !.date = t, !.id = id]
        s1 == [s0 EXCEPT !.psz_artist =
                   RETRIEVE_METADATA(s0.psz_artist, item.album_artist)]
        s2 == IF s1.psz_artist = NULL
              THEN [s1 EXCEPT !.psz_artist =
                        RETRIEVE_METADATA(s1.psz_artist, item.artist)]
              ELSE s1
        s3 == [s2 EXCEPT !.psz_title =
                   RETRIEVE_METADATA(s2.psz_title, item.title)]
        s4 == [s3 EXCEPT
                 !.psz_album = RETRIEVE_METADATA(s3.psz_album, item.album),
                 !.psz_musicbrainz_recording_id =
                     RETRIEVE_METADATA(s3.psz_musicbrainz_recording_id,
                                       item.track_id),
                 !.psz_track_number =
                     RETRIEVE_METADATA(s3.psz_track_number, item.track_num),
                 !.i_length = item.duration]
    IN  IF s2.psz_artist = NULL
        THEN [song |-> DeleteSong(s2), registered |-> FALSE]
        ELSE IF s3.psz_title = NULL
        THEN [song |-> DeleteSong(s3), registered |-> FALSE]
        ELSE [song |-> s4, registered |-> TRUE]

\* Mutant of NotListenedLongEnough: the threshold is one second too low.
NotListenedLongEnough_OffByOne(played) == played < MinListenSec - 1

\* Mutant of SongLength: the played time never stands in for the length.
SongLength_Unset(song, played) == song.i_length

\* Enqueue: the two tests that send the song to the error label.
MissingArtistOrTitle(song) ==
    EMPTY_STR(song.psz_artist) \/ EMPTY_STR(song.psz_title)

\* Mutant of EnqueueBody: the song is pushed but the worker is not signalled.
EnqueueBody_NoSignal(song, q, played) ==
    IF MissingArtistOrTitle(song) \/ played < MinListenSec
    THEN [song |-> DeleteSong(song), queue |-> q, pushed |-> FALSE]
    ELSE [song |-> EmptySong,
          queue |-> Append(q, [song EXCEPT !.i_length =
                                   IF song.i_length = 0 THEN played
                                   ELSE song.i_length]),
          pushed |-> FALSE]

\* Mutant of EnqueueBody: the current song is not cleared after the push.
EnqueueBody_KeepsSong(song, q, played) ==
    IF MissingArtistOrTitle(song) \/ played < MinListenSec
    THEN [song |-> DeleteSong(song), queue |-> q, pushed |-> FALSE]
    ELSE [song |-> song,
          queue |-> Append(q, [song EXCEPT !.i_length =
                                   IF song.i_length = 0 THEN played
                                   ELSE song.i_length]),
          pushed |-> TRUE]

\* Mutant of EnqueueBody: the song is pushed at the head of the queue.
EnqueueBody_PushFront(song, q, played) ==
    IF MissingArtistOrTitle(song) \/ played < MinListenSec
    THEN [song |-> DeleteSong(song), queue |-> q, pushed |-> FALSE]
    ELSE [song |-> EmptySong, queue |-> <<song>> \o q, pushed |-> TRUE]

NotListenedLongEnough(played) == played < MinListenSec

\* Enqueue: the length of the song once the played time stands in for an
\* unknown length.
SongLength(song, played) ==
    IF song.i_length = 0 THEN played ELSE song.i_length

\* Enqueue between lock and unlock: the new current song and queue, and
\* whether the song was pushed (the condition variable signalled).
EnqueueBody(song, q, played) ==
    IF MissingArtistOrTitle(song)
    THEN [song |-> DeleteSong(song), queue |-> q, pushed |-> FALSE]
    ELSE IF NotListenedLongEnough(played)
    THEN [song |-> DeleteSong(song), queue |-> q, pushed |-> FALSE]
    ELSE [song |-> EmptySong,
          queue |-> Append(q, [song EXCEPT !.i_length = SongLength(song, played)]),
          pushed |-> TRUE]

\* Mutant of CondSignal: the signal wakes nobody.
CondSignal_Lost(pc) == pc

\* vlc_cond_signal(&p_sys->wait): the position of the worker afterwards.
CondSignal(pc) ==
    CASE pc = "w_timedwait" -> "w_tw_woken"
      [] pc = "w_condwait" -> "w_cw_woken"
      [] OTHER -> pc

\* -------------------------------------------------------------------- Init

Init ==
    /\ queue = << >>
    /\ p_current_song = EmptySong
    /\ b_meta_read = FALSE
    /\ time_played = 0
    /\ live = TRUE
    /\ lock = "free"
    /\ now = 1
    /\ n_listens = 0
    /\ ppc = "idle"
    /\ p_item = NullPtr
    /\ p_omc = NullPtr
    /\ wpc = "w_start"
    /\ b_wait = FALSE
    /\ deadline = 0
    /\ tw_ret = 0
    /\ payload = NullPtr
    /\ batch = << >>
    /\ ret = NullPtr
    /\ waited = FALSE
    /\ cpc = "idle"
    /\ listening = TRUE

\* ----------------------------------------------------------- player thread

\* The media the environment can hand to a callback: NULL, or an item as long
\* as fewer than MaxListens listens were populated.
Medias ==
    {NullPtr} \cup (IF n_listens < MaxListens
                    THEN { Ptr(i) : i \in Items } ELSE {})

\* ReadMetaData up to vlc_mutex_lock: where the player thread goes.
ReadMetaDataEntry(item) ==
    IF item = NullPtr
    THEN [ppc |-> "idle", p_item |-> NullPtr]
    ELSE [ppc |-> "rmd_lock", p_item |-> item]

\* OnCurrentMediaChanged after its call of Enqueue: the flag, the played
\* time and where the player thread goes.
MediaChangedTail(omc, played) ==
    IF omc.new_media = NullPtr \/ omc.video # 0
    THEN [b_meta_read |-> FALSE, time_played |-> played,
          ppc |-> "idle", p_item |-> NullPtr]
    ELSE IF omc.preparsed
    THEN [b_meta_read |-> FALSE, time_played |-> 0,
          ppc |-> ReadMetaDataEntry(omc.new_media).ppc,
          p_item |-> ReadMetaDataEntry(omc.new_media).p_item]
    ELSE [b_meta_read |-> FALSE, time_played |-> 0,
          ppc |-> "idle", p_item |-> NullPtr]

\* What follows the return of Enqueue in its caller: nothing after
\* PlayerStateChanged (omc is NULL), the tail of OnCurrentMediaChanged else.
AfterEnqueue(omc, meta_read, played) ==
    IF omc = NullPtr
    THEN [b_meta_read |-> meta_read, time_played |-> played,
          ppc |-> "idle", p_item |-> NullPtr]
    ELSE MediaChangedTail(Deref(omc), played)

\* Enqueue up to vlc_mutex_lock, called with the arguments omc of the
\* OnCurrentMediaChanged that called it (NULL from PlayerStateChanged).
EnqueueEntry(omc) ==
    IF p_current_song.date = 0
    THEN LET a == AfterEnqueue(omc, FALSE, time_played)
         IN  /\ b_meta_read' = a.b_meta_read
             /\ time_played' = a.time_played
             /\ ppc' = a.ppc
             /\ p_item' = a.p_item
             /\ p_omc' = NullPtr
    ELSE /\ b_meta_read' = FALSE
         /\ ppc' = "enq_lock"
         /\ p_omc' = omc
         /\ UNCHANGED <<time_played, p_item>>

\* Mutant of HasVideoTracks: the count of video tracks is not looked at.
HasVideoTracks_Ignored(video) == FALSE

\* The test of vlc_player_GetVideoTrackCount at the top of
\* PlayerStateChanged.
HasVideoTracks(video) == video # 0

\* Mutant of MetaDataWanted: b_meta_read is not tested.
MetaDataWanted_EveryTime(meta_read, state) ==
    state >= VLC_PLAYER_STATE_PLAYING

\* The test of PlayerStateChanged before its call of ReadMetaData.
MetaDataWanted(meta_read, state) ==
    ~meta_read /\ state >= VLC_PLAYER_STATE_PLAYING

PlayerStateChanged(state, video, item) ==
    /\ listening
    /\ ppc = "idle"
    /\ IF HasVideoTracks(video)
       THEN UNCHANGED <<b_meta_read, time_played, ppc, p_item, p_omc>>
       ELSE IF MetaDataWanted(b_meta_read, state)
       THEN /\ ppc' = ReadMetaDataEntry(item).ppc
            /\ p_item' = ReadMetaDataEntry(item).p_item
            /\ UNCHANGED <<b_meta_read, time_played, p_omc>>
       ELSE IF state = VLC_PLAYER_STATE_STOPPED
       THEN EnqueueEntry(NullPtr)
       ELSE UNCHANGED <<b_meta_read, time_played, ppc, p_item, p_omc>>
    /\ UNCHANGED <<queue, p_current_song, live, lock, now, n_listens>>
    /\ UNCHANGED workerVars
    /\ UNCHANGED closeVars

OnCurrentMediaChanged(new_media, video, preparsed) ==
    /\ listening
    /\ ppc = "idle"
    /\ EnqueueEntry(Ptr([new_media |-> new_media, video |-> video,
                         preparsed |-> preparsed]))
    /\ UNCHANGED <<queue, p_current_song, live, lock, now, n_listens>>
    /\ UNCHANGED workerVars
    /\ UNCHANGED closeVars

\* vlc_mutex_lock in ReadMetaData and in Enqueue.
PlayerLock ==
    /\ ppc \in {"rmd_lock", "enq_lock"}
    /\ lock = "free"
    /\ lock' = "player"
    /\ ppc' = IF ppc = "rmd_lock" THEN "rmd_body" ELSE "enq_body"
    /\ UNCHANGED <<queue, p_current_song, b_meta_read, time_played, live,
                   now, n_listens, p_item, p_omc>>
    /\ UNCHANGED workerVars
    /\ UNCHANGED closeVars

\* ReadMetaData from the lock held to vlc_mutex_unlock.
ReadMetaData ==
    /\ ppc = "rmd_body"
    /\ lock = "player"
    /\ LET r == ReadMetaDataBody(p_current_song, Deref(p_item), now,
                                 n_listens + 1)
       IN  /\ p_current_song' = r.song
           /\ n_listens' = IF r.registered THEN n_listens + 1 ELSE n_listens
           /\ wpc' = IF r.registered THEN CondSignal(wpc) ELSE wpc
    /\ b_meta_read' = TRUE
    /\ lock' = "free"
    /\ ppc' = "idle"
    /\ p_item' = NullPtr
    /\ UNCHANGED <<queue, time_played, live, now, p_omc>>
    /\ UNCHANGED <<b_wait, deadline, tw_ret, payload, batch, ret, waited>>
    /\ UNCHANGED closeVars

\* Enqueue from the lock held to its return, and what its caller does next.
Enqueue ==
    /\ ppc = "enq_body"
    /\ lock = "player"
    /\ LET r == EnqueueBody(p_current_song, queue, time_played)
           a == AfterEnqueue(p_omc, b_meta_read, time_played)
       IN  /\ p_current_song' = r.song
           /\ queue' = r.queue
           /\ wpc' = IF r.pushed THEN CondSignal(wpc) ELSE wpc
           /\ b_meta_read' = a.b_meta_read
           /\ time_played' = a.time_played
           /\ ppc' = a.ppc
           /\ p_item' = a.p_item
    /\ lock' = "free"
    /\ p_omc' = NullPtr
    /\ UNCHANGED <<live, now, n_listens>>
    /\ UNCHANGED <<b_wait, deadline, tw_ret, payload, batch, ret, waited>>
    /\ UNCHANGED closeVars

OnTimerUpdate(value) ==
    /\ listening
    /\ time_played' = value
    /\ UNCHANGED <<queue, p_current_song, b_meta_read, live, lock, now,
                   n_listens, ppc, p_item, p_omc>>
    /\ UNCHANGED workerVars
    /\ UNCHANGED closeVars

\* The clock advances.
Tick ==
    /\ now + TickStep <= MaxTime
    /\ now' = now + TickStep
    /\ UNCHANGED <<queue, p_current_song, b_meta_read, time_played, live,
                   lock, n_listens, ppc, p_item, p_omc>>
    /\ UNCHANGED workerVars
    /\ UNCHANGED closeVars

\* ----------------------------------------------------------------- payload

\* The payload is the text PreparePayload prints, as a sequence of tokens:
\* P(c) a punctuation mark, K(k) an object key, S(s) a string value printed
\* between quotes with %s, N(n) a number.
P(c) == [p |-> c]
K(k) == [k |-> k]
S(s) == [s |-> s]
N(n) == [n |-> n]

\* Mutant of PayloadHead: every batch that is not empty is called single.
PayloadHead_SingleIfAny(size) ==
    << P("{"), K("listen_type"), P(":"),
       S(IF size >= 1 THEN "single" ELSE "import"),
       P(","), K("payload"), P(":"), P("[") >>

\* The first vlc_memstream_printf: the listen type and the opening bracket.
PayloadHead(size) ==
    << P("{"), K("listen_type"), P(":"),
       S(IF size = 1 THEN "single" ELSE "import"),
       P(","), K("payload"), P(":"), P("[") >>

\* The prints of one pass of the loop over the queue.
PayloadSong(p_song) ==
    << P("{"), K("listened_at"), P(":"), N(p_song.date) >>
    \o << P(","), K("track_metadata"), P(":"), P("{"),
          K("artist_name"), P(":"), S(p_song.psz_artist), P(",") >>
    \o << K("track_name"), P(":"), S(p_song.psz_title), P(",") >>
    \o (IF ~EMPTY_STR(p_song.psz_album)
        THEN << K("release_name"), P(":"), S(p_song.psz_album) >>
        ELSE << >>)
    \o (IF ~EMPTY_STR(p_song.psz_musicbrainz_recording_id)
        THEN << P(","), K("additional_info"), P(":"), P("{"),
                K("recording_mbid"), P(":"),
                S(p_song.psz_musicbrainz_recording_id), P("}") >>
        ELSE << >>)
    \o << P("}"), P("}") >>

RECURSIVE PayloadSongs(_, _)
PayloadSongs(q, i_song) ==
    IF i_song > Len(q) THEN << >>
    ELSE PayloadSong(q[i_song]) \o PayloadSongs(q, i_song + 1)

\* PreparePayload: the text, or NULL when vlc_memstream_close reports an
\* error (i_status is not 0).
PreparePayload(q, i_status) ==
    IF i_status = 0
    THEN Ptr(PayloadHead(Len(q)) \o PayloadSongs(q, 1) \o << P("]"), P("}") >>)
    ELSE NullPtr

\* SendRequest: its return value for what the network did.
SendRequest(outcome) ==
    IF outcome = "status_200" THEN VLC_SUCCESS ELSE VLC_EGENERIC

\* ----------------------------------------------------------- worker thread

\* Mutant of QueueAfterSubmit: a failed submission drops the oldest listen.
QueueAfterSubmit_DropsOldest(q, r) ==
    IF r = VLC_SUCCESS THEN DeleteSongQueue(q) ELSE Tail(q)

\* Run after SendRequest, with the lock held again: the queue and b_wait.
QueueAfterSubmit(q, r) ==
    IF r = VLC_SUCCESS THEN DeleteSongQueue(q) ELSE q

\* Mutant of WaitAfterSubmit: no backoff after a failure.
WaitAfterSubmit_Never(r) == FALSE

WaitAfterSubmit(r) == r # VLC_SUCCESS

\* vlc_mutex_lock before the loop.
RunLock ==
    /\ wpc = "w_start"
    /\ lock = "free"
    /\ lock' = "worker"
    /\ wpc' = "w_top"
    /\ UNCHANGED <<queue, live, now, b_wait, deadline, tw_ret, payload, batch,
                   ret, waited>>
    /\ UNCHANGED playerVars
    /\ UNCHANGED closeVars

\* Mutant of TimedWaitAgain: any wake-up ends the timed wait.
TimedWaitAgain_Once(is_live, r) == FALSE

\* Whether the loop of the timed wait goes round after a wait returned r.
TimedWaitAgain(is_live, r) == is_live /\ r = 0

\* Whether the timed wait is entered at all: b_wait, and the first test of
\* its loop, where ret is 0.
EntersTimedWait(wait, is_live) == wait /\ is_live

\* Top of the loop, lock held: start the timed wait of the backoff, or go on
\* to the wait for work.
RunLoopTop ==
    /\ wpc = "w_top"
    /\ lock = "worker"
    /\ IF EntersTimedWait(b_wait, live)
       THEN /\ deadline' = now + BackoffSec
            /\ tw_ret' = 0
            /\ wpc' = "w_timedwait"
            /\ lock' = "free"
            /\ waited' = TRUE
       ELSE /\ wpc' = "w_work"
            /\ UNCHANGED <<deadline, tw_ret, lock, waited>>
    /\ UNCHANGED <<queue, live, now, b_wait, payload, batch, ret>>
    /\ UNCHANGED playerVars
    /\ UNCHANGED closeVars

\* vlc_cond_timedwait reaches its deadline.
TimedWaitTimeout ==
    /\ wpc = "w_timedwait"
    /\ now >= deadline
    /\ wpc' = "w_tw_woken"
    /\ tw_ret' = ETIMEDOUT
    /\ UNCHANGED <<queue, live, lock, now, b_wait, deadline, payload, batch,
                   ret, waited>>
    /\ UNCHANGED playerVars
    /\ UNCHANGED closeVars

\* A wait on the condition variable wakes up with no signal.
SpuriousWakeup ==
    /\ wpc \in {"w_timedwait", "w_condwait"}
    /\ wpc' = CondSignal(wpc)
    /\ UNCHANGED <<queue, live, lock, now, b_wait, deadline, tw_ret, payload,
                   batch, ret, waited>>
    /\ UNCHANGED playerVars
    /\ UNCHANGED closeVars

\* vlc_cond_timedwait returns with the lock held again, and the loop around
\* it tests live and ret.
TimedWaitReturn ==
    /\ wpc = "w_tw_woken"
    /\ lock = "free"
    /\ IF TimedWaitAgain(live, tw_ret)
       THEN /\ wpc' = "w_timedwait"
            /\ lock' = "free"
            /\ UNCHANGED <<deadline, tw_ret>>
       ELSE /\ wpc' = "w_work"
            /\ lock' = "worker"
            /\ deadline' = 0
            /\ tw_ret' = 0
    /\ UNCHANGED <<queue, live, now, b_wait, payload, batch, ret, waited>>
    /\ UNCHANGED playerVars
    /\ UNCHANGED closeVars

\* vlc_cond_wait returns with the lock held again.
CondWaitReturn ==
    /\ wpc = "w_cw_woken"
    /\ lock = "free"
    /\ wpc' = "w_work"
    /\ lock' = "worker"
    /\ UNCHANGED <<queue, live, now, b_wait, deadline, tw_ret, payload, batch,
                   ret, waited>>
    /\ UNCHANGED playerVars
    /\ UNCHANGED closeVars

\* Mutant of WaitForWork: the size of the queue is not tested.
WaitForWork_Never(is_live, q) == FALSE

\* Whether the loop of the wait for work goes round (again).
WaitForWork(is_live, q) == is_live /\ Len(q) = 0

\* Mutant of LeaveLoop: live is not tested after the waits.
LeaveLoop_Never(is_live) == FALSE

\* Whether the loop of Run is left.
LeaveLoop(is_live) == ~is_live

\* Mutant of LockAfterPayload: the lock is kept over the request.
LockAfterPayload_Kept(owner, p_payload) == owner

\* Mutant of LockAfterPayload: the return on a NULL payload skips the unlock.
LockAfterPayload_KeptOnError(owner, p_payload) ==
    IF p_payload = NullPtr THEN owner ELSE "free"

\* The owner of the lock once the payload is built: vlc_mutex_unlock comes
\* before the tests of the payload, PrepareRequest and SendRequest.
LockAfterPayload(owner, p_payload) == "free"

\* Lock held, after the backoff: wait for work, leave the loop when live is
\* false, or build the payload and release the lock.
RunWork(i_status) ==
    /\ wpc = "w_work"
    /\ lock = "worker"
    /\ IF WaitForWork(live, queue)
       THEN /\ wpc' = "w_condwait"
            /\ lock' = "free"
            /\ UNCHANGED <<payload, batch, waited>>
       ELSE IF LeaveLoop(live)
       THEN /\ wpc' = "w_exited"
            /\ lock' = "free"
            /\ UNCHANGED <<payload, batch, waited>>
       ELSE /\ payload' = PreparePayload(queue, i_status)
            /\ lock' = LockAfterPayload("worker", payload')
            /\ batch' = queue
            /\ waited' = FALSE
            /\ wpc' = IF payload' = NullPtr THEN "w_exited" ELSE "w_request"
    /\ UNCHANGED <<queue, live, now, b_wait, deadline, tw_ret, ret>>
    /\ UNCHANGED playerVars
    /\ UNCHANGED closeVars

\* PrepareRequest: the request, or NULL when vlc_memstream_close reports an
\* error; Run returns on NULL.
RunRequest(i_status) ==
    /\ wpc = "w_request"
    /\ wpc' = IF i_status = 0 THEN "w_net" ELSE "w_exited"
    /\ payload' = NullPtr
    /\ UNCHANGED <<queue, live, lock, now, b_wait, deadline, tw_ret, batch,
                   ret, waited>>
    /\ UNCHANGED playerVars
    /\ UNCHANGED closeVars

\* SendRequest returns.
RunSend(outcome) ==
    /\ wpc = "w_net"
    /\ ret' = Ptr(SendRequest(outcome))
    /\ wpc' = "w_sent"
    /\ UNCHANGED <<queue, live, lock, now, b_wait, deadline, tw_ret, payload,
                   batch, waited>>
    /\ UNCHANGED playerVars
    /\ UNCHANGED closeVars

\* vlc_mutex_lock after SendRequest, and the handling of its result.
RunResult ==
    /\ wpc = "w_sent"
    /\ lock = "free"
    /\ lock' = "worker"
    /\ queue' = QueueAfterSubmit(queue, Deref(ret))
    /\ b_wait' = WaitAfterSubmit(Deref(ret))
    /\ wpc' = "w_top"
    /\ batch' = IF Deref(ret) = VLC_SUCCESS THEN << >> ELSE batch
    /\ UNCHANGED <<live, now, deadline, tw_ret, payload, ret, waited>>
    /\ UNCHANGED playerVars
    /\ UNCHANGED closeVars

\* ------------------------------------------------------------------- Close

CloseLock ==
    /\ cpc = "idle"
    /\ lock = "free"
    /\ lock' = "close"
    /\ cpc' = "c_locked"
    /\ UNCHANGED <<queue, live, now, listening>>
    /\ UNCHANGED playerVars
    /\ UNCHANGED workerVars

\* live = false, vlc_cond_signal, vlc_mutex_unlock.
CloseStop ==
    /\ cpc = "c_locked"
    /\ lock = "close"
    /\ live' = FALSE
    /\ wpc' = CondSignal(wpc)
    /\ lock' = "free"
    /\ cpc' = "c_kill"
    /\ UNCHANGED <<queue, now, listening>>
    /\ UNCHANGED <<b_wait, deadline, tw_ret, payload, batch, ret, waited>>
    /\ UNCHANGED playerVars

\* vlc_interrupt_kill.
CloseKill ==
    /\ cpc = "c_kill"
    /\ cpc' = "c_join"
    /\ UNCHANGED <<queue, live, lock, now, listening>>
    /\ UNCHANGED playerVars
    /\ UNCHANGED workerVars

\* vlc_join returns once Run has returned.
CloseJoin ==
    /\ cpc = "c_join"
    /\ wpc = "w_exited"
    /\ cpc' = "c_joined"
    /\ UNCHANGED <<queue, live, lock, now, listening>>
    /\ UNCHANGED playerVars
    /\ UNCHANGED workerVars

\* The listeners are removed (no callback is running then), the queue and
\* the current song are deleted.
CloseCleanup ==
    /\ cpc = "c_joined"
    /\ ppc = "idle"
    /\ listening' = FALSE
    /\ queue' = DeleteSongQueue(queue)
    /\ p_current_song' = DeleteSong(p_current_song)
    /\ cpc' = "c_closed"
    /\ UNCHANGED <<live, lock, now>>
    /\ UNCHANGED <<b_meta_read, time_played, n_listens, ppc, p_item, p_omc>>
    /\ UNCHANGED workerVars

\* --------------------------------------------------------------------- Next

Next ==
    \/ \E state \in PlayerStates, video \in {0, 1}, item \in Medias :
          PlayerStateChanged(state, video, item)
    \/ \E new_media \in Medias, video \in {0, 1}, preparsed \in BOOLEAN :
          OnCurrentMediaChanged(new_media, video, preparsed)
    \/ PlayerLock
    \/ ReadMetaData
    \/ Enqueue
    \/ \E value \in PlayedVals : OnTimerUpdate(value)
    \/ Tick
    \/ RunLock
    \/ RunLoopTop
    \/ TimedWaitTimeout
    \/ SpuriousWakeup
    \/ TimedWaitReturn
    \/ CondWaitReturn
    \/ \E i_status \in {0, 1} : RunWork(i_status)
    \/ \E i_status \in {0, 1} : RunRequest(i_status)
    \/ \E outcome \in NetOutcomes : RunSend(outcome)
    \/ RunResult
    \/ CloseLock
    \/ CloseStop
    \/ CloseKill
    \/ CloseJoin
    \/ CloseCleanup

Spec == Init /\ [][Next]_vars

\* Scheduling: a thread that can run does run; a thread blocked on the mutex
\* gets it when it is released again and again (SF); a network call in
\* flight returns.  Player events, timer updates, spurious wake-ups, the
\* clock and the call of Close itself are not forced.
Fairness ==
    /\ SF_vars(RunLock)
    /\ WF_vars(RunLoopTop)
    /\ WF_vars(TimedWaitTimeout)
    /\ SF_vars(TimedWaitReturn)
    /\ SF_vars(CondWaitReturn)
    /\ WF_vars(\E i_status \in {0, 1} : RunWork(i_status))
    /\ WF_vars(\E i_status \in {0, 1} : RunRequest(i_status))
    /\ WF_vars(\E outcome \in NetOutcomes : RunSend(outcome))
    /\ SF_vars(RunResult)
    /\ WF_vars(ReadMetaData)
    /\ WF_vars(Enqueue)
    /\ WF_vars(CloseStop)
    /\ WF_vars(CloseKill)
    /\ WF_vars(CloseJoin)

FairSpec == Spec /\ Fairness

\* ------------------------------------------------------------------ claims

\* The step in which Run handles the result of SendRequest.
HandlesResult == wpc = "w_sent" /\ wpc' = "w_top"

\* The step in which Run builds a payload (begins a submission attempt).
BeginsAttempt == wpc = "w_work" /\ batch' = queue /\ waited' = FALSE
                 /\ wpc' \in {"w_request", "w_exited"} /\ ~WaitForWork(live, queue)
                 /\ ~LeaveLoop(live)

\* C1: as long as the plugin is not torn down, a listen leaves the queue only
\* in a step where the submission that just returned succeeded and the
\* listen was part of the batch that submission sent.
C1_RemovedOnlyIfSubmitted ==
    [][ listening' =>
          \A i \in DOMAIN queue :
              queue[i] \notin Range(queue') =>
                  /\ HandlesResult
                  /\ Deref(ret) = VLC_SUCCESS
                  /\ queue[i] \in Range(batch) ]_vars

\* C2: when Run handles the result of a submission it empties the queue if
\* and only if the submission succeeded, a failure leaves the queue as it
\* was (the failed batch still at its head), and no step of the running
\* plugin removes part of the queue: the queue is kept, appended to, or
\* emptied.
C2_ClearedIffSuccess ==
    [][ /\ HandlesResult =>
              /\ (queue' = << >>) <=> (Deref(ret) = VLC_SUCCESS)
              /\ Deref(ret) # VLC_SUCCESS =>
                    queue' = queue /\ IsPrefix(batch, queue') /\ batch # << >>
        /\ listening' => (queue' = << >> \/ IsPrefix(queue, queue')) ]_vars

\* C2 witness: a failed submission was handled and the queue still holds the
\* failed batch and a listen pushed while the submission was under way.
C2_Witness ==
    /\ wpc = "w_top"
    /\ ret = Ptr(VLC_EGENERIC)
    /\ b_wait
    /\ batch # << >>
    /\ Len(queue) > Len(batch)

\* The step in which Enqueue, holding the lock, evaluates the current song.
EvaluatesSong == ppc = "enq_body" /\ ppc' # "enq_body"

\* C3: every listen in the queue has an artist and a title; a listen is
\* pushed only in a step in which Enqueue sees a played time of at least
\* MinListenSec seconds; and a song that Enqueue evaluates with no artist, no
\* title or a shorter played time is not pushed, and the current song is
\* empty afterwards.
C3_OnlyEligibleQueued ==
    /\ [](\A i \in DOMAIN queue :
             ~EMPTY_STR(queue[i].psz_artist) /\ ~EMPTY_STR(queue[i].psz_title))
    /\ [][ Len(queue') > Len(queue) =>
              (EvaluatesSong /\ time_played >= MinListenSec) ]_vars
    /\ [][ ( /\ EvaluatesSong
             /\ ( \/ EMPTY_STR(p_current_song.psz_artist)
                  \/ EMPTY_STR(p_current_song.psz_title)
                  \/ time_played < MinListenSec ) ) =>
              (queue' = queue /\ p_current_song' = EmptySong) ]_vars

\* C3 witness: two listens were populated and evaluated, no submission has
\* returned, and one of them is in the queue: the other was discarded.
C3_Witness ==
    /\ n_listens = 2
    /\ Len(queue) = 1
    /\ ret = NullPtr
    /\ p_current_song = EmptySong
    /\ ppc = "idle"
    /\ ~b_meta_read

\* C4: when Enqueue evaluates a populated current song that has an artist
\* and a title, with a played time of at least MinListenSec seconds, the
\* queue becomes the old queue followed by that song, whose length is the
\* played time if it was 0 and its own length otherwise; the current song
\* becomes empty; and a worker waiting on the condition variable is woken.
C4_EligibleSongAppended ==
    [][ ( /\ EvaluatesSong
          /\ p_current_song.date # 0
          /\ ~EMPTY_STR(p_current_song.psz_artist)
          /\ ~EMPTY_STR(p_current_song.psz_title)
          /\ time_played >= MinListenSec ) =>
        /\ queue' = Append(queue,
               [p_current_song EXCEPT !.i_length =
                    IF p_current_song.i_length = 0 THEN time_played
                    ELSE p_current_song.i_length])
        /\ p_current_song' = EmptySong
        /\ wpc = "w_condwait" => wpc' = "w_cw_woken"
        /\ wpc = "w_timedwait" => wpc' = "w_tw_woken" ]_vars

\* C4 witness: a song of unknown length is in the queue with the played time
\* as its length, and the worker has been woken from its wait for work.
C4_Witness ==
    /\ \E i \in DOMAIN queue :
          queue[i].psz_artist = "Z" /\ queue[i].i_length = MinListenSec
    /\ p_current_song = EmptySong
    /\ wpc = "w_cw_woken"
    /\ live

\* The artist names of a payload text, in the order they are printed.
RECURSIVE ArtistNames(_)
ArtistNames(text) ==
    IF Len(text) < 3 THEN << >>
    ELSE IF text[1] = K("artist_name")
    THEN <<text[3].s>> \o ArtistNames(Tail(text))
    ELSE ArtistNames(Tail(text))

\* The listened_at values of a payload text, in the order they are printed.
RECURSIVE ListenedAts(_)
ListenedAts(text) ==
    IF Len(text) < 3 THEN << >>
    ELSE IF text[1] = K("listened_at")
    THEN <<text[3].n>> \o ListenedAts(Tail(text))
    ELSE ListenedAts(Tail(text))

\* C5: the queue holds the listens in the order they were populated and
\* pushed; a payload lists the artists and the times of the listens of the
\* queue in queue order; and the attempt that follows a failed one is built
\* from a queue that starts with the failed batch, followed only by listens
\* populated later.
C5_FifoOrder ==
    /\ [](\A i, j \in DOMAIN queue : i < j => queue[i].id < queue[j].id)
    /\ [](payload # NullPtr =>
             /\ ArtistNames(Deref(payload)) =
                    [i \in DOMAIN batch |-> batch[i].psz_artist]
             /\ ListenedAts(Deref(payload)) =
                    [i \in DOMAIN batch |-> batch[i].date])
    /\ [][ BeginsAttempt =>
              /\ batch' = queue
              /\ (ret # NullPtr /\ Deref(ret) # VLC_SUCCESS) =>
                    /\ IsPrefix(batch, batch')
                    /\ \A i \in DOMAIN batch' :
                          i > Len(batch) =>
                             \A j \in DOMAIN batch : batch[j].id < batch'[i].id
            ]_vars

\* C5 witness: the retry of a failed attempt is under way with the failed
\* listen first and a listen pushed since the failure after it.
C5_Witness ==
    /\ wpc = "w_request"
    /\ waited = FALSE
    /\ b_wait
    /\ Len(batch) = 2
    /\ batch[1].psz_artist # batch[2].psz_artist
    /\ batch[1].date < batch[2].date

\* C6: Run begins an attempt after a timed wait if and only if the attempt
\* before it failed; after a success the queue is empty and Run, without a
\* timed wait, goes to the wait for work; after any failure Run, if live,
\* goes to the timed wait with a deadline BackoffSec seconds away.
C6_BackoffIffFailed ==
    /\ [][ BeginsAttempt =>
              (waited <=> (ret # NullPtr /\ Deref(ret) # VLC_SUCCESS)) ]_vars
    /\ [][ HandlesResult =>
              (b_wait' <=> Deref(ret) # VLC_SUCCESS) ]_vars
    /\ [][ (wpc = "w_top" /\ wpc' # "w_top") =>
              IF ret # NullPtr /\ Deref(ret) # VLC_SUCCESS /\ live
              THEN wpc' = "w_timedwait" /\ deadline' = now + BackoffSec
              ELSE wpc' = "w_work" /\ lock' = "worker" /\ ~waited' ]_vars
    /\ [][ (wpc = "w_top" /\ wpc' = "w_work" /\ ret = Ptr(VLC_SUCCESS)) =>
              queue' = << >> ]_vars
    /\ [][ (wpc = "w_work" /\ wpc' # "w_work" /\ live /\ queue = << >>) =>
              wpc' = "w_condwait" ]_vars

\* C6 witness: the retry of a failed attempt is under way after a timed wait
\* that ended at its deadline, while the plugin is live.
C6_Witness ==
    /\ wpc = "w_work"
    /\ b_wait
    /\ waited
    /\ live
    /\ now >= BackoffSec
    /\ ret = Ptr(VLC_EGENERIC)

InTimedWait(pc) == pc \in {"w_timedwait", "w_tw_woken"}

\* C7: Run leaves the timed wait of the backoff only at or after its
\* deadline or when live is false, and then holds the lock at the wait for
\* work; woken before that (by a signal or spuriously) while live, it waits
\* again with the same deadline.
C7_BackoffNotShortened ==
    /\ [][ (InTimedWait(wpc) /\ ~InTimedWait(wpc')) =>
              /\ now >= deadline \/ ~live
              /\ wpc' = "w_work" ]_vars
    /\ [][ (wpc = "w_tw_woken" /\ wpc' # wpc /\ tw_ret = 0 /\ live) =>
              wpc' = "w_timedwait" /\ deadline' = deadline ]_vars
    /\ [](InTimedWait(wpc) => deadline >= BackoffSec /\ b_wait /\ waited)

\* C7 witness: before the deadline, while live, the worker in its timed wait
\* was woken with a new listen in the queue.
C7_Witness ==
    /\ wpc = "w_tw_woken"
    /\ tw_ret = 0
    /\ live
    /\ now < deadline
    /\ Len(queue) > Len(batch)

\* C8: once live is false it stays false and Run builds no payload any more:
\* it begins no attempt, and from the wait for work it only leaves the loop;
\* when Close is done the worker has exited and the queue is empty.
C8_NoAttemptAfterClose ==
    /\ [][ ~live => ~live' ]_vars
    /\ [][ ~live =>
              /\ ~BeginsAttempt
              /\ (wpc' = "w_request" => wpc = "w_request")
              /\ (wpc = "w_work" /\ wpc' # wpc) =>
                    (wpc' = "w_exited" /\ batch' = batch /\ payload' = payload
                     /\ queue' = queue) ]_vars
    /\ [](cpc \in {"c_joined", "c_closed"} => wpc = "w_exited")
    /\ [](cpc = "c_closed" => queue = << >>)

\* C8 witness: Close stopped the worker during its backoff; the worker has
\* exited with the failed batch still in the queue.
C8_Witness ==
    /\ ~live
    /\ wpc = "w_exited"
    /\ b_wait
    /\ waited
    /\ queue # << >>
    /\ cpc = "c_joined"

\* C9: under the scheduling of Fairness, once live is false the worker
\* exits and the join of Close returns.
C9_ShutdownTerminates ==
    ~live ~> (wpc = "w_exited" /\ cpc \in {"c_joined", "c_closed"})

\* C9 witness: the join of Close has returned for a worker that was in its
\* wait for work, with nothing to submit, when Close was called.
C9_Witness ==
    /\ cpc = "c_joined"
    /\ wpc = "w_exited"
    /\ ret = NullPtr
    /\ batch = << >>
    /\ n_listens = 0

\* C10: the worker has exited only if live is false.
C10_ExitedOnlyIfNotLive == wpc = "w_exited" => ~live

\* C11: the worker holds the lock only while it waits, builds the payload
\* and handles the result: never while it prepares, sends or awaits a
\* request, so that a producer or Close takes the lock during the network
\* call.
C11_NoLockDuringNetwork ==
    /\ (wpc \in {"w_request", "w_net", "w_sent"}) => (lock # "worker")
    /\ (lock = "worker") => (wpc \in {"w_top", "w_work"})

\* C11 witness: a player callback holds the lock, in Enqueue, while the
\* request of the worker is in flight.
C11_Witness ==
    /\ wpc = "w_net"
    /\ lock = "player"
    /\ ppc = "enq_body"

\* The step in which Enqueue tests the date of the current song, finds it
\* set and goes on to lock the mutex.
TestsSongDate == (ppc = "idle") /\ (ppc' = "enq_lock")

\* C12: while the worker and the callbacks run, every step that writes the
\* queue, the current song or live, and the step in which Enqueue tests the
\* date of the current song, is taken by a thread that holds the mutex.
C12_AccessUnderLock ==
    /\ [][(queue' # queue /\ listening')
              => (lock = "player" \/ lock' = "worker")]_vars
    /\ [][(p_current_song' # p_current_song /\ listening')
              => (lock = "player")]_vars
    /\ [][(live' # live) => (lock = "close")]_vars
    /\ [][TestsSongDate => (lock = "player")]_vars

\* The listen_type values of a payload text, in the order they are printed.
RECURSIVE ListenTypes(_)
ListenTypes(text) ==
    IF Len(text) < 3 THEN << >>
    ELSE IF text[1] = K("listen_type")
    THEN <<text[3].s>> \o ListenTypes(Tail(text))
    ELSE ListenTypes(Tail(text))

\* C13: a payload names one listen_type; it is "single" if and only if the
\* queue held exactly one listen when the payload was built, "import"
\* otherwise, and the listens it was decided from are the ones the payload
\* lists.
C13_ListenTypeFromBatch ==
    (payload # NullPtr) =>
        /\ ListenTypes(Deref(payload)) =
               << IF Len(batch) = 1 THEN "single" ELSE "import" >>
        /\ Len(ListenedAts(Deref(payload))) = Len(batch)

\* C13 witness: a payload built from a queue of two listens is an import.
C13_Witness ==
    /\ payload # NullPtr
    /\ Len(batch) = 2
    /\ ListenTypes(Deref(payload)) = << "import" >>

\* The string values printed after the key k in a payload text, in order.
RECURSIVE StringsOf(_, _)
StringsOf(text, k) ==
    IF Len(text) < 3 THEN << >>
    ELSE IF text[1] = K(k)
    THEN <<text[3].s>> \o StringsOf(Tail(text), k)
    ELSE StringsOf(Tail(text), k)

\* The values of field f of the listens of q that have it, in queue order.
PresentFields(q, f) ==
    LET sel == SelectSeq(q, LAMBDA p_song : ~EMPTY_STR(p_song[f]))
    IN  [i \in 1..Len(sel) |-> sel[i][f]]

\* Every element of the array is opened right after the opening bracket or
\* after a comma that follows the element before it.
ElementsSeparated(text) ==
    \A i \in 1..Len(text) :
        (text[i] = K("listened_at")) =>
            /\ i > 2
            /\ text[i - 1] = P("{")
            /\ text[i - 2] \in {P("["), P(",")}
            /\ (text[i - 2] = P("[")) <=>
                   (\A j \in 1..(i - 1) : text[j] # K("listened_at"))

\* Every comma of the text is followed by a key, or by the brace that opens
\* the next element: none is left dangling before a closing brace or before
\* another comma.
MembersSeparated(text) ==
    \A i \in 1..Len(text) :
        (text[i] = P(",")) =>
            /\ i < Len(text)
            /\ text[i + 1] \notin {P(","), P("}"), P("]")}

\* C14: the payload built from a batch of N listens is an array of N
\* separated elements in queue order, each with the listened_at, the
\* artist_name and the track_name of its listen, with release_name exactly
\* for the listens that have an album and recording_mbid exactly for those
\* that have a recording id.
C14_PayloadElements ==
    (payload # NullPtr) =>
        LET text == Deref(payload)
        IN  /\ ListenedAts(text) = [i \in 1..Len(batch) |-> batch[i].date]
            /\ StringsOf(text, "artist_name") =
                   [i \in 1..Len(batch) |-> batch[i].psz_artist]
            /\ StringsOf(text, "track_name") =
                   [i \in 1..Len(batch) |-> batch[i].psz_title]
            /\ StringsOf(text, "release_name") =
                   PresentFields(batch, "psz_album")
            /\ StringsOf(text, "recording_mbid") =
                   PresentFields(batch, "psz_musicbrainz_recording_id")
            /\ ElementsSeparated(text)
            /\ MembersSeparated(text)

\* The step in which OnCurrentMediaChanged, back from the Enqueue of the
\* outgoing song, runs to its return or to the lock of ReadMetaData.
MediaChangedReturns ==
    (p_omc # NullPtr) /\ (ppc = "enq_body") /\ (ppc' # "enq_body")

\* C15: OnCurrentMediaChanged leaves time_played at zero for every new
\* media, NULL and media with video tracks included, so that the time played
\* of the outgoing song is not there to count for the next one.
C15_MediaChangeResetsTime ==
    [][MediaChangedReturns => (time_played' = 0)]_vars

\* C16: once ReadMetaData has set b_meta_read, no step that leaves it set
\* changes the current song or starts ReadMetaData again, and ReadMetaData
\* runs only with b_meta_read reset: a state at or beyond PLAYING signalled
\* again for the same track populates nothing and keeps the date.
C16_PopulatedOncePerTrack ==
    /\ [][(b_meta_read /\ b_meta_read' /\ listening')
              => (p_current_song' = p_current_song)]_vars
    /\ [][(b_meta_read /\ b_meta_read' /\ ppc = "idle")
              => (ppc' = "idle")]_vars
    /\ [](ppc \in {"rmd_lock", "rmd_body"} => ~b_meta_read)

\* C16 witness: the song populated at an earlier time is still the current
\* song, with its date, while the player can signal its state again.
C16_Witness ==
    /\ b_meta_read
    /\ ppc = "idle"
    /\ listening
    /\ p_current_song.date # 0
    /\ now > p_current_song.date

\* An item that has neither album artist nor artist, or has no title.
LacksArtistOrTitle(item) ==
    \/ (EMPTY_STR(item.album_artist) /\ EMPTY_STR(item.artist))
    \/ EMPTY_STR(item.title)

\* The step in which ReadMetaData, the lock held, reads the item and
\* returns.
ReadsItem == (ppc = "rmd_body") /\ (ppc' # "rmd_body")

\* C17: ReadMetaData on an item without album artist and artist, or without
\* title, leaves the current song empty with b_meta_read set, signals
\* nothing to the worker and leaves the queue alone; Enqueue goes no further
\* than its test of the date while the current song is empty, and the queue
\* grows only in the critical section of Enqueue.
C17_EagerReject ==
    /\ [][(ReadsItem /\ LacksArtistOrTitle(Deref(p_item)))
              => (/\ p_current_song' = EmptySong
                  /\ b_meta_read'
                  /\ wpc' = wpc
                  /\ queue' = queue)]_vars
    /\ [](ppc \in {"enq_lock", "enq_body"} => p_current_song.date # 0)
    /\ [][(Len(queue') > Len(queue)) => (ppc = "enq_body")]_vars

\* C17 witness: ReadMetaData has run and rejected its item: the flag is set,
\* no listen was ever populated, the current song and the queue are empty.
C17_Witness ==
    /\ b_meta_read
    /\ n_listens = 0
    /\ p_current_song = EmptySong
    /\ queue = << >>
    /\ ppc = "idle"
    /\ wpc = "w_condwait"

\* The step in which Run returns because PreparePayload or PrepareRequest
\* gave NULL.
BuildFails ==
    \/ (wpc = "w_work") /\ (wpc' = "w_exited") /\ ~LeaveLoop(live)
    \/ (wpc = "w_request") /\ (wpc' = "w_exited")

\* C18: when PreparePayload or PrepareRequest fails, Run returns with the
\* queue as it was and without the lock; the exited worker never holds the
\* lock, so that callbacks and Close still take it.
C18_FailureReturnsUnlocked ==
    /\ [][BuildFails => (queue' = queue /\ lock' # "worker")]_vars
    /\ [](wpc = "w_exited" => lock # "worker")

\* C18 witness: after the worker returned on a build failure, live still
\* true and a listen still queued, a callback holds the lock.
C18_Witness ==
    /\ wpc = "w_exited"
    /\ live
    /\ queue # << >>
    /\ lock = "player"

\* The worker is neither in its backoff nor between the payload and the
\* result of a submission, and has not returned.
ReadyForWork ==
    \/ wpc \in {"w_start", "w_work", "w_condwait", "w_cw_woken"}
    \/ (wpc = "w_top" /\ ~b_wait)

\* C19: the worker is never left blocked in vlc_cond_wait with a listen in
\* the queue, and, under the scheduling of Fairness, whenever the queue is
\* not empty, live is true and the worker is ready for work, the worker
\* goes on to build a payload (or Close makes live false first).
C19_NoLostWakeup ==
    /\ [](wpc = "w_condwait" => (queue = << >> /\ live))
    /\ (queue # << >> /\ live /\ ReadyForWork)
           ~> (wpc \in {"w_request", "w_exited"} \/ ~live)

\* C19 witness: Enqueue has pushed the first listen and signalled the worker
\* that was blocked in vlc_cond_wait; the worker has yet to take the lock.
C19_Witness ==
    /\ wpc = "w_cw_woken"
    /\ Len(queue) = 1
    /\ live
    /\ batch = << >>
    /\ ppc = "idle"

\* The video track counts, other than zero, that the callbacks are called
\* with.
VideoCounts == {1}

\* C20: a step of PlayerStateChanged taken while the player counts video
\* tracks, whatever the state and the media, changes neither the current
\* song, nor b_meta_read, nor the queue, and starts neither ReadMetaData nor
\* Enqueue.
C20_VideoIgnored ==
    [][\A state \in PlayerStates, video \in VideoCounts, item \in Medias :
           PlayerStateChanged(state, video, item)
               => (/\ p_current_song' = p_current_song
                   /\ b_meta_read' = b_meta_read
                   /\ queue' = queue
                   /\ ppc' = ppc)]_vars

\* C20 witness: a populated song, its flag set, and a queued listen are
\* there to be left alone when the player signals a state with video tracks
\* counted.
C20_Witness ==
    /\ listening
    /\ ppc = "idle"
    /\ b_meta_read
    /\ p_current_song.date # 0
    /\ queue # << >>
    /\ ENABLED PlayerStateChanged(VLC_PLAYER_STATE_STOPPED, 1, NullPtr)

\* C21: the current song is empty after every evaluation by Enqueue, pushed
\* or not, and whenever its date is zero; a push appends the listen that was
\* populated last, which is in the queue and in the batch under way nowhere
\* else, so that Enqueue called again before the next ReadMetaData (STOPPED,
\* then a media change) pushes nothing a second time.
C21_QueuedAtMostOnce ==
    /\ [][EvaluatesSong => (p_current_song' = EmptySong)]_vars
    /\ []((p_current_song.date = 0) => (p_current_song = EmptySong))
    /\ []((p_current_song.date # 0) => (p_current_song.id = n_listens))
    /\ [][(Len(queue') > Len(queue))
              => (/\ EvaluatesSong
                  /\ p_current_song.id = n_listens
                  /\ queue' = Append(queue, queue'[Len(queue')])
                  /\ queue'[Len(queue')].id = n_listens
                  /\ \A i \in DOMAIN queue : queue[i].id < n_listens
                  /\ \A i \in DOMAIN batch : batch[i].id < n_listens)]_vars

\* C21 witness: a media change has been handled after the only populated
\* listen was pushed (time_played is back to zero); the listen is in the
\* queue once and the current song is empty.
C21_Witness ==
    /\ ppc = "idle"
    /\ n_listens = 1
    /\ Len(queue) = 1
    /\ queue[1].id = 1
    /\ p_current_song = EmptySong
    /\ ~b_meta_read
    /\ time_played = 0

\* C22: a payload is built, and a request prepared and sent, only for a
\* batch that is not empty; while the worker runs with b_wait true the
\* queue is not empty; a worker woken from vlc_cond_wait that finds the
\* queue empty and live true waits again, building nothing; and the worker
\* is never in vlc_cond_wait with b_wait true, so that the retry after a
\* backoff does not block there.
C22_NoEmptyBatch ==
    /\ []((payload # NullPtr) =>
              (batch # << >> /\ Len(ListenedAts(Deref(payload))) >= 1))
    /\ []((wpc \in {"w_request", "w_net", "w_sent"}) => (batch # << >>))
    /\ []((b_wait /\ wpc # "w_exited") => (queue # << >>))
    /\ [][(wpc = "w_cw_woken" /\ wpc' # wpc) => (wpc' = "w_work")]_vars
    /\ [][(wpc = "w_work" /\ wpc' # wpc /\ queue = << >> /\ live)
              => (/\ wpc' = "w_condwait"
                  /\ payload' = payload
                  /\ batch' = batch)]_vars
    /\ []((wpc \in {"w_condwait", "w_cw_woken"}) => ~b_wait)

\* C22 witness: the signal of ReadMetaData has woken the worker from
\* vlc_cond_wait while the queue is empty: a song is populated, nothing was
\* ever pushed.
C22_Witness ==
    /\ wpc = "w_cw_woken"
    /\ live
    /\ queue = << >>
    /\ batch = << >>
    /\ p_current_song.date # 0
    /\ b_meta_read

====
